---- MODULE Spec2Model ----
(***************************************************************************)
(* Crazy Eights (human player against the computer): the game state kept   *)
(* by the App component, its handlers (initGame, drawCard, playCard,       *)
(* selectSuit, the reset buttons), the deferred computer move (the         *)
(* useEffect timer) and the rule helpers (createDeck, shuffle,             *)
(* isValidMove).                                                           *)
(***************************************************************************)
EXTENDS Integers, Sequences, FiniteSets, TLC

\* ------------------------------------------------------------------ bounds

\* Number of Math.random streams a shuffle can draw (one stream per seed).
NSeeds == 3

\* Per game, how many inputs (the card the user clicks, the suit the user
\* picks, the value Math.random hands the computer, the stream of a
\* reshuffle) may differ from the first option on offer.
MaxDeviations == 1

\* ------------------------------------------------------------------ types

Suits == <<"hearts", "diamonds", "clubs", "spades">>

Ranks == <<"A", "2", "3", "4", "5", "6", "7", "8", "9", "10", "J", "Q", "K">>

EIGHT == "8"

SuitSet == {Suits[i] : i \in 1..Len(Suits)}

RankSet == {Ranks[i] : i \in 1..Len(Ranks)}

\* Suit | null, 'player' | 'ai' | null
Null == "null"

CardData(rank, suit) == [id |-> rank \o "-" \o suit, suit |-> suit, rank |-> rank]

\* Number of cards dealt to each hand: fullDeck.splice(0, 8)
HandSize == 8

\* ------------------------------------------------------------- array helpers

Last(s) == s[Len(s)]

\* array.slice(0, -1), array after pop()
Front(s) == SubSeq(s, 1, Len(s) - 1)

Swap(a, i, j) == [a EXCEPT ![i] = a[j], ![j] = a[i]]

\* JavaScript truthiness of a value of type Suit | null or 'player' | 'ai' | null
Truthy(v) == v # Null

Other(turn) == IF turn = "player" THEN "ai" ELSE "player"

HandField(turn) == IF turn = "player" THEN "playerHand" ELSE "aiHand"

\* ------------------------------------------------------------- gameLogic

\* Math.random: the value of one call is x / 65537, where x runs through
\* the stream of a linear congruential generator.
NextRandom(x) == (75 * x + 74) % 65537

\* Math.floor(Math.random() * n) for the stream value x
RandomIndex(x, n) == (x * n) \div 65537

\* The value the stream with the given seed starts from. The streams are
\* picked so that the games they deal include a reshuffle of the discard
\* pile, wins of both sides and last cards that are eights.
RandomStart(seed) == 59004 + seed

\* The Fisher-Yates loop of shuffle: i is the 1-based index of the element
\* being placed, x the stream value before this iteration's Math.random call.
\* The array an iteration leaves (swapped) and its stream value (next) are
\* bound as values before the next iteration reads them.
RECURSIVE FisherYates(_, _, _)
FisherYates(a, i, x) ==
  IF i <= 1 THEN a
  ELSE LET r == NextRandom(x)
           j == RandomIndex(r, i) + 1
       IN CHOOSE result \in {FisherYates(swapped, i - 1, next) :
                               swapped \in {Swap(a, i, j)}, next \in {r}} : TRUE

shuffle(array, seed) == FisherYates(array, Len(array), RandomStart(seed))

\* The deck before it is shuffled: for suit of suits, for rank of ranks, push
OrderedDeck ==
  [k \in 1..(Len(Suits) * Len(Ranks)) |->
     CardData(Ranks[((k - 1) % Len(Ranks)) + 1], Suits[((k - 1) \div Len(Ranks)) + 1])]

createDeck(seed) == shuffle(OrderedDeck, seed)

\* isValidMove without the currentSuit override
isValidMoveIgnoresCurrentSuit(card, topCard, currentSuit) ==
  IF card.rank = EIGHT THEN TRUE
  ELSE card.suit = topCard.suit \/ card.rank = topCard.rank

isValidMove(card, topCard, currentSuit) ==
  IF card.rank = EIGHT THEN TRUE
  ELSE LET targetSuit == IF Truthy(currentSuit) THEN currentSuit ELSE topCard.suit
       IN card.suit = targetSuit \/ card.rank = topCard.rank

\* ------------------------------------------------------------------ state

VARIABLES
  state,         \* the GameState held by useState
  isAiThinking,  \* the isAiThinking flag
  timer,         \* the pending setTimeout of the AI effect and what its closure reads
  deviations,    \* inputs of this game that were not the first option on offer
  lastOp,        \* the handler (and branch) that made the last step
  probe          \* an isValidMove call and its result

vars == <<state, isAiThinking, timer, deviations, lastOp, probe>>

NoTimer == [pending |-> FALSE]

NoProbe == [called |-> FALSE]

InitialState ==
  [deck |-> <<>>, discardPile |-> <<>>, playerHand |-> <<>>, aiHand |-> <<>>,
   currentSuit |-> Null, currentTurn |-> "player", status |-> "waiting",
   winner |-> Null, lastAction |-> <<"welcome">>]

Init ==
  /\ state = InitialState
  /\ isAiThinking = FALSE
  /\ timer = NoTimer
  /\ deviations = 0
  /\ lastOp = [name |-> "init", turn |-> Null, branch |-> Null]
  /\ probe = NoProbe

\* ------------------------------------------------------------- game actions

\* fullDeck after fullDeck.pop(): the draw pile of a new game
deckAfterDealKeepsDiscard(rest) == rest

deckAfterDeal(rest) == Front(rest)

\* The object initGame hands to setState
initGameState(seed) ==
  LET fullDeck == createDeck(seed)
      pHand == SubSeq(fullDeck, 1, HandSize)
      aHand == SubSeq(fullDeck, HandSize + 1, 2 * HandSize)
      rest == SubSeq(fullDeck, 2 * HandSize + 1, Len(fullDeck))
      firstDiscard == Last(rest)
  IN [deck |-> deckAfterDeal(rest), discardPile |-> <<firstDiscard>>,
      playerHand |-> pHand, aiHand |-> aHand,
      currentSuit |-> Null, currentTurn |-> "player", status |-> "playing",
      winner |-> Null, lastAction |-> <<"start">>]

\* The branch of drawCard's updater taken from prev
drawBranch(prev) ==
  IF Len(prev.deck) = 0
  THEN IF Len(prev.discardPile) <= 1 THEN "exhausted" ELSE "reshuffle"
  ELSE "normal"

\* prev.discardPile.slice(0, -1): the cards a reshuffle turns into the draw pile
reshuffleSourceWithTop(prev) == prev.discardPile

reshuffleSource(prev) == Front(prev.discardPile)

\* newDeck after newDeck.pop() in the branch of a non-empty draw pile
deckAfterDrawNotPopped(deck) == deck

deckAfterDraw(deck) == Front(deck)

\* currentTurn after a draw that took a card
turnAfterDrawKeepsTurn(turn) == turn

turnAfterDraw(turn) == Other(turn)

\* The card newDeck.pop() returns
drawnCardFromFront(deck) == Head(deck)

drawnCard(deck) == Last(deck)

\* The state drawCard returns when neither pile can yield a card
exhaustedUpdateKeepsTurn(prev, turn) == [prev EXCEPT !.lastAction = <<"exhausted">>]

exhaustedUpdate(prev, turn) ==
  [prev EXCEPT !.lastAction = <<"exhausted">>, !.currentTurn = Other(turn)]

\* The updater drawCard hands to setState; seed is the stream of the reshuffle
drawCardUpdate(prev, turn, seed) ==
  IF Len(prev.deck) = 0
  THEN IF Len(prev.discardPile) <= 1
       THEN exhaustedUpdate(prev, turn)
       ELSE LET topCard == Last(prev.discardPile)
                shuffled == shuffle(reshuffleSource(prev), seed)
                card == Last(shuffled)
                newDeck == Front(shuffled)
            IN [prev EXCEPT !.deck = newDeck,
                            !.discardPile = <<topCard>>,
                            ![HandField(turn)] = Append(prev[HandField(turn)], card),
                            !.lastAction = <<"draw", turn>>,
                            !.currentTurn = turnAfterDraw(turn)]
  ELSE LET card == drawnCard(prev.deck)
           newDeck == deckAfterDraw(prev.deck)
           newHand == Append(prev[HandField(turn)], card)
       IN [prev EXCEPT !.deck = newDeck,
                       ![HandField(turn)] = newHand,
                       !.lastAction = <<"draw", turn>>,
                       !.currentTurn = turnAfterDraw(turn)]

\* counts[suit] after newHand.forEach(c => counts[c.suit]++)
suitCount(hand, suit) == Cardinality({i \in 1..Len(hand) : hand[i].suit = suit})

\* The reduce with its comparison reversed
RECURSIVE reduceSuitsReversed(_, _, _)
reduceSuitsReversed(hand, a, from) ==
  IF from > Len(Suits) THEN a
  ELSE LET b == Suits[from]
       IN reduceSuitsReversed(hand, IF suitCount(hand, a) < suitCount(hand, b) THEN a ELSE b,
                              from + 1)

\* Object.keys(counts).reduce((a, b) => counts[a] > counts[b] ? a : b),
\* folded from the left over keys[from..]
RECURSIVE reduceSuits(_, _, _)
reduceSuits(hand, a, from) ==
  IF from > Len(Suits) THEN a
  ELSE LET b == Suits[from]
       IN reduceSuits(hand, IF suitCount(hand, a) > suitCount(hand, b) THEN a ELSE b, from + 1)

aiChosenSuit(newHand) == reduceSuits(newHand, Suits[1], 2)

\* prev[hand].filter(c => c.id !== card.id)
handAfterPlayKeepsCard(hand, card) == hand

handAfterPlay(hand, card) == SelectSeq(hand, LAMBDA c : c.id # card.id)

\* currentTurn of the state after a play
turnAfterPlayAlwaysPasses(isEight, turn) == Other(turn)

turnAfterPlay(isEight, turn) == IF isEight /\ turn = "player" THEN "player" ELSE Other(turn)

\* status of the state after a play
statusAfterPlayEightFirst(winner, nextStatus) ==
  IF nextStatus = "choosing_suit" THEN nextStatus
  ELSE IF Truthy(winner) THEN "game_over" ELSE nextStatus

statusAfterPlay(winner, nextStatus) == IF Truthy(winner) THEN "game_over" ELSE nextStatus

\* currentSuit after a play: chosenSuit, null unless the computer played an eight
suitAfterPlayKeepsDeclared(prev, chosenSuit) ==
  IF chosenSuit # Null THEN chosenSuit ELSE prev.currentSuit

suitAfterPlay(prev, chosenSuit) == chosenSuit

\* The updater playCard hands to setState
playCardUpdate(prev, card, turn) ==
  LET hand == prev[HandField(turn)]
      newHand == handAfterPlay(hand, card)
      isEight == card.rank = EIGHT
      nextStatus == IF isEight /\ turn = "player" THEN "choosing_suit" ELSE "playing"
      chosenSuit == IF isEight /\ turn = "ai" THEN aiChosenSuit(newHand) ELSE Null
      winner == IF Len(newHand) = 0 THEN turn ELSE Null
  IN [prev EXCEPT !.discardPile = Append(prev.discardPile, card),
                  ![HandField(turn)] = newHand,
                  !.currentSuit = suitAfterPlay(prev, chosenSuit),
                  !.currentTurn = turnAfterPlay(isEight, turn),
                  !.status = statusAfterPlay(winner, nextStatus),
                  !.winner = winner,
                  !.lastAction = <<"play", turn, card.id, chosenSuit>>]

\* selectSuit leaving the turn where it is
selectSuitUpdateKeepsTurn(prev, suit) ==
  [prev EXCEPT !.currentSuit = suit, !.status = "playing", !.lastAction = <<"suit", suit>>]

\* The updater selectSuit hands to setState
selectSuitUpdate(prev, suit) ==
  [prev EXCEPT !.currentSuit = suit, !.status = "playing", !.currentTurn = "ai",
               !.lastAction = <<"suit", suit>>]

\* The updater of the reset button and of the return-to-menu button
resetUpdate(s) == [s EXCEPT !.status = "waiting"]

\* ------------------------------------------------------------- AI effect

\* The dependency list without the status
effectDepsWithoutStatus(s) ==
  <<s.currentTurn, s.aiHand, s.discardPile, s.currentSuit, s.winner>>

\* The dependency list of the AI effect (playCard and drawCard never change)
effectDeps(s) == <<s.status, s.currentTurn, s.aiHand, s.discardPile, s.currentSuit, s.winner>>

\* The condition failing under a declared suit
aiEffectConditionWithoutSuit(s) ==
  s.status = "playing" /\ s.currentTurn = "ai" /\ ~Truthy(s.winner) /\ s.currentSuit = Null

\* The condition under which the AI effect schedules the computer's move
aiEffectCondition(s) == s.status = "playing" /\ s.currentTurn = "ai" /\ ~Truthy(s.winner)

\* The timer after the render that follows a change from old to new: when a
\* dependency changed, the cleanup clears the pending timer and the effect
\* runs again, its callback closing over the state of that render.
timerAfterRender(old, new, pendingTimer) ==
  IF effectDeps(old) = effectDeps(new) THEN pendingTimer
  ELSE IF aiEffectCondition(new)
       THEN [pending |-> TRUE, aiHand |-> new.aiHand,
             discardPile |-> new.discardPile, currentSuit |-> new.currentSuit]
       ELSE NoTimer

\* isAiThinking after that render: setIsAiThinking(true) when the effect schedules
thinkingAfterRender(old, new, flag) ==
  IF effectDeps(old) # effectDeps(new) /\ aiEffectCondition(new) THEN TRUE ELSE flag

\* A handler's setState, the render and the effects that follow it
Commit(new, pendingTimer, flag) ==
  /\ state' = new
  /\ timer' = timerAfterRender(state, new, pendingTimer)
  /\ isAiThinking' = thinkingAfterRender(state, new, flag)

\* ------------------------------------------------------------- helpers of the render

topCardOf(s) == Last(s.discardPile)

\* canPlayerMove finding no legal card ever
canPlayerMoveNever(s) == FALSE

canPlayerMove(s) ==
  IF s.currentTurn # "player" \/ s.status # "playing" THEN FALSE
  ELSE \E i \in 1..Len(s.playerHand) : isValidMove(s.playerHand[i], topCardOf(s), s.currentSuit)

\* The playable flag computed without isValidMove
playableAnyCard(s, i) == s.currentTurn = "player" /\ s.status = "playing"

\* The playable flag of the i-th card of the player's hand
playable(s, i) ==
  /\ s.currentTurn = "player"
  /\ s.status = "playing"
  /\ isValidMove(s.playerHand[i], topCardOf(s), s.currentSuit)

\* The draw pile button with its onClick guard alone
drawButtonEnabledOnClickOnly(s) == s.currentTurn = "player" /\ ~canPlayerMove(s)

\* The disabled attribute and the onClick guard of the draw pile button
drawButtonEnabled(s) ==
  /\ ~(s.currentTurn # "player" \/ canPlayerMove(s) \/ s.status # "playing")
  /\ s.currentTurn = "player" /\ ~canPlayerMove(s)

\* What a click on the draw pile button makes of s: a disabled button and
\* a false onClick guard call nothing, and the menu shows no draw pile
drawPileClick(s, seed) ==
  IF s.status # "waiting" /\ drawButtonEnabled(s)
  THEN drawCardUpdate(s, "player", seed) ELSE s

\* What a click on the i-th card of the player's hand makes of s: the Card
\* has an onClick only while it is playable
cardClick(s, i) ==
  IF s.status # "waiting" /\ playable(s, i)
  THEN playCardUpdate(s, s.playerHand[i], "player") ELSE s

\* ------------------------------------------------------------- bounded inputs

\* 0 for the first option on offer, 1 for any other
Cost(isFirst) == IF isFirst THEN 0 ELSE 1

Spend(cost) ==
  /\ deviations + cost <= MaxDeviations
  /\ deviations' = deviations + cost

\* ------------------------------------------------------------- steps

\* The start button of the menu: onClick={initGame}
StartGame ==
  /\ state.status = "waiting"
  /\ \E seed \in 1..NSeeds : Commit(initGameState(seed), timer, isAiThinking)
  /\ deviations' = 0
  /\ lastOp' = [name |-> "initGame", turn |-> Null, branch |-> Null]
  /\ UNCHANGED probe

\* The play-again button of the game over modal: onClick={initGame}
PlayAgain ==
  /\ state.status = "game_over"
  /\ \E seed \in 1..NSeeds : Commit(initGameState(seed), timer, isAiThinking)
  /\ deviations' = 0
  /\ lastOp' = [name |-> "initGame", turn |-> Null, branch |-> Null]
  /\ UNCHANGED probe

\* The draw pile button: drawCard('player')
PlayerDraw ==
  /\ state.status # "waiting"
  /\ drawButtonEnabled(state)
  /\ \E seed \in 1..NSeeds :
       /\ seed = 1 \/ drawBranch(state) = "reshuffle"
       /\ Spend(Cost(seed = 1))
       /\ Commit(drawPileClick(state, seed), timer, isAiThinking)
  /\ lastOp' = [name |-> "drawCard", turn |-> "player", branch |-> drawBranch(state)]
  /\ UNCHANGED probe

\* A click on a playable card of the player's hand: playCard(card, 'player')
PlayerPlay ==
  /\ state.status # "waiting"
  /\ \E i \in 1..Len(state.playerHand) :
       /\ playable(state, i)
       /\ Spend(Cost(\A k \in 1..(i - 1) : ~playable(state, k)))
       /\ Commit(cardClick(state, i), timer, isAiThinking)
  /\ lastOp' = [name |-> "playCard", turn |-> "player", branch |-> Null]
  /\ UNCHANGED probe

\* A suit button of the suit selection modal: selectSuit(suit)
SelectSuit ==
  /\ state.status = "choosing_suit"
  /\ \E k \in 1..Len(Suits) :
       /\ Spend(Cost(k = 1))
       /\ Commit(selectSuitUpdate(state, Suits[k]), timer, isAiThinking)
  /\ lastOp' = [name |-> "selectSuit", turn |-> "player", branch |-> Null]
  /\ UNCHANGED probe

\* The reset button of the header (rendered on every screen but the menu)
ResetButton ==
  /\ state.status # "waiting"
  /\ Commit(resetUpdate(state), timer, isAiThinking)
  /\ lastOp' = [name |-> "reset", turn |-> Null, branch |-> Null]
  /\ UNCHANGED <<deviations, probe>>

\* The return-to-menu button of the game over modal
ReturnToMenu ==
  /\ state.status = "game_over"
  /\ Commit(resetUpdate(state), timer, isAiThinking)
  /\ lastOp' = [name |-> "returnToMenu", turn |-> Null, branch |-> Null]
  /\ UNCHANGED <<deviations, probe>>

\* What the timer callback decides from the state its closure holds:
\* the cards it may hand to playCard (none: it calls drawCard)
aiPlayableCards(closure) ==
  SelectSeq(closure.aiHand,
            LAMBDA c : isValidMove(c, Last(closure.discardPile), closure.currentSuit))

\* nonEights without its filter
aiNonEightsUnfiltered(closure) == aiPlayableCards(closure)

aiNonEights(closure) == SelectSeq(aiPlayableCards(closure), LAMBDA c : c.rank # EIGHT)

\* The setTimeout callback of the AI effect
AiTimerFires ==
  /\ timer.pending
  /\ LET playableCards == aiPlayableCards(timer)
         nonEights == aiNonEights(timer)
     IN IF Len(playableCards) > 0
        THEN /\ IF Len(nonEights) > 0
                THEN \E idx \in 0..(Len(nonEights) - 1) :
                       /\ Spend(Cost(idx = 0))
                       /\ Commit(playCardUpdate(state, nonEights[idx + 1], "ai"), NoTimer, FALSE)
                ELSE /\ Spend(0)
                     /\ Commit(playCardUpdate(state, playableCards[1], "ai"), NoTimer, FALSE)
             /\ lastOp' = [name |-> "playCard", turn |-> "ai", branch |-> Null]
        ELSE /\ \E seed \in 1..NSeeds :
                  /\ seed = 1 \/ drawBranch(state) = "reshuffle"
                  /\ Spend(Cost(seed = 1))
                  /\ Commit(drawCardUpdate(state, "ai", seed), NoTimer, FALSE)
             /\ lastOp' = [name |-> "drawCard", turn |-> "ai", branch |-> drawBranch(state)]
  /\ UNCHANGED probe

Next ==
  \/ StartGame
  \/ PlayAgain
  \/ PlayerDraw
  \/ PlayerPlay
  \/ SelectSuit
  \/ ResetButton
  \/ ReturnToMenu
  \/ AiTimerFires

Spec == Init /\ [][Next]_vars

\* A timer that is set and not cleared fires
Fairness == WF_vars(AiTimerFires)

SpecFair == Init /\ [][Next]_vars /\ Fairness

\* ------------------------------------------------------------- the rule evaluator alone

\* Every card, top card and current suit (a suit or null) as the arguments of a call
InitRule ==
  /\ state = InitialState
  /\ isAiThinking = FALSE
  /\ timer = NoTimer
  /\ deviations = 0
  /\ lastOp = [name |-> "init", turn |-> Null, branch |-> Null]
  /\ \E cr \in RankSet, cs \in SuitSet, tr \in RankSet, ts \in SuitSet,
        currentSuit \in SuitSet \cup {Null} :
       probe = [called |-> FALSE, card |-> CardData(cr, cs), topCard |-> CardData(tr, ts),
                currentSuit |-> currentSuit]

\* The call of isValidMove on those arguments
ProbeRule ==
  /\ ~probe.called
  /\ probe' = [called |-> TRUE, card |-> probe.card, topCard |-> probe.topCard,
               currentSuit |-> probe.currentSuit,
               result |-> isValidMove(probe.card, probe.topCard, probe.currentSuit)]
  /\ UNCHANGED <<state, isAiThinking, timer, deviations, lastOp>>

NextRule == ProbeRule

SpecRule == InitRule /\ [][NextRule]_vars

\* ------------------------------------------------------------- properties

\* A game has been started at least once (lastAction leaves the welcome text on initGame)
Started == state.lastAction # <<"welcome">>

AllCards(s) == s.deck \o s.discardPile \o s.playerHand \o s.aiHand

CardCount(s) == Len(s.deck) + Len(s.discardPile) + Len(s.playerHand) + Len(s.aiHand)

CardIds(seq) == {seq[i].id : i \in 1..Len(seq)}

\* The last step was a play by the given side
PlayedBy(turn) == lastOp.name = "playCard" /\ lastOp.turn = turn

\* C1: in every state reached after a start(), through any sequence of draws,
\* plays, suit declarations, resets and starts, the draw pile, the discard
\* pile and the two hands together hold 52 cards.
C1_TotalIs52 == Started => CardCount(state) = 52

\* A card is played after a reshuffling draw (the draw pile holds more cards
\* than a deal leaves it).
C1_Witness ==
  /\ Started
  /\ lastOp.name = "playCard"
  /\ Len(state.deck) > 35

\* C2: no card identity is in two of the draw pile, the discard pile, the
\* player hand and the computer hand, nor twice in one of them.
C2_Partition == Cardinality(CardIds(AllCards(state))) = CardCount(state)

\* All four locations hold cards after a play by the player.
C2_Witness ==
  /\ PlayedBy("player")
  /\ Len(state.deck) > 0
  /\ Len(state.discardPile) > 2
  /\ Len(state.playerHand) > 0
  /\ Len(state.aiHand) > 0

\* C3: right after every start(), whatever the state before it, each hand has
\* 8 cards, the discard pile 1 card, the draw pile the other 35 cards, the
\* turn is the player's, the status in-progress, and there is no declared
\* suit and no winner.
C3_AfterStart ==
  lastOp.name = "initGame" =>
    /\ Len(state.playerHand) = 8
    /\ Len(state.aiHand) = 8
    /\ Len(state.discardPile) = 1
    /\ Len(state.deck) = 35
    /\ CardIds(AllCards(state)) = CardIds(OrderedDeck)
    /\ state.currentTurn = "player"
    /\ state.status = "playing"
    /\ state.currentSuit = Null
    /\ state.winner = Null

\* A start() that follows a reset made while the computer was thinking.
C3_Witness == lastOp.name = "initGame" /\ isAiThinking

\* C4: isLegalPlay is true of every eight; of any other card it is true
\* exactly when the card's suit is the effective suit (the declared suit if
\* there is one, else the top card's suit) or its rank is the top card's.
C4_LegalPlay ==
  probe.called =>
    LET effective == IF probe.currentSuit \in SuitSet THEN probe.currentSuit
                     ELSE probe.topCard.suit
    IN IF probe.card.rank = "8" THEN probe.result = TRUE
       ELSE probe.result = (probe.card.suit = effective \/ probe.card.rank = probe.topCard.rank)

\* A card that follows the top card's suit is refused under another declared suit.
C4_Witness ==
  /\ probe.called
  /\ probe.card.rank # "8"
  /\ probe.card.rank # probe.topCard.rank
  /\ probe.card.suit = probe.topCard.suit
  /\ probe.currentSuit \in SuitSet \ {probe.card.suit}
  /\ probe.result = FALSE

\* C5: a play that takes the last card of the playing side's hand, whatever
\* the card's rank, leaves the status concluded and that side the winner.
C5_LastCardWins ==
  \A turn \in {"player", "ai"} :
    (PlayedBy(turn) /\ Len(state[HandField(turn)]) = 0) =>
      (state.status = "game_over" /\ state.winner = turn)

\* The player's last card was an eight.
C5_Witness ==
  /\ PlayedBy("player")
  /\ Len(state.playerHand) = 0
  /\ Last(state.discardPile).rank = "8"

\* C6: the status is concluded exactly when there is a winner, in every
\* reachable state, also after the reset and the return to the menu.
C6_ConcludedIffWinner == (state.status = "game_over") <=> (state.winner # Null)

\* C7: an eight of the human player that does not empty the hand leaves the
\* status awaiting-suit-declaration and the turn with the player, with no
\* computer move pending; while the status is awaiting-suit-declaration no
\* draw and no play takes place: the wait ends with declareSuit (or with the
\* reset that abandons the game).
C7_EightAwaitsSuit ==
  [][/\ (/\ lastOp'.name = "playCard"
         /\ lastOp'.turn = "player"
         /\ Last(state'.discardPile).rank = "8"
         /\ Len(state'.playerHand) > 0)
        => (/\ state'.status = "choosing_suit"
            /\ state'.currentTurn = "player"
            /\ ~timer'.pending)
     /\ state.status = "choosing_suit"
        => (/\ lastOp'.name \in {"selectSuit", "reset"}
            /\ state'.status # "choosing_suit"
            /\ lastOp'.name = "selectSuit" <=> state'.status = "playing")]_vars

\* The player played an eight while another card of the hand was playable too.
C7_Witness ==
  /\ PlayedBy("player")
  /\ state.status = "choosing_suit"
  /\ Len(state.playerHand) > 0
  /\ deviations > 0

\* C8: declareSuit takes effect only in the status awaiting-suit-declaration;
\* it sets the declared suit to the suit given, the status to in-progress
\* and the turn to the computer, and leaves the hands, the draw pile, the
\* discard pile and the winner as they were.
C8_DeclareSuit ==
  [][lastOp'.name = "selectSuit" =>
       /\ state.status = "choosing_suit"
       /\ state'.currentSuit \in SuitSet
       /\ state'.lastAction = <<"suit", state'.currentSuit>>
       /\ state'.status = "playing"
       /\ state'.currentTurn = "ai"
       /\ state'.deck = state.deck
       /\ state'.discardPile = state.discardPile
       /\ state'.playerHand = state.playerHand
       /\ state'.aiHand = state.aiHand
       /\ state'.winner = state.winner]_vars

\* The player declared a suit other than the first one on offer.
C8_Witness ==
  /\ lastOp.name = "selectSuit"
  /\ state.currentSuit = "spades"
  /\ timer.pending

\* Position of a suit in the order the computer's tie-break follows
SuitIndex(suit) == CHOOSE i \in 1..Len(Suits) : Suits[i] = suit

\* C9: an eight of the computer that does not empty its hand sets, in the
\* same step, the declared suit to a suit with the most cards among the
\* computer's remaining cards, ties going to the suit that comes last in
\* the fixed order hearts, diamonds, clubs, spades; the status stays
\* in-progress and the turn passes to the player.
C9_ComputerEight ==
  (/\ PlayedBy("ai")
   /\ Last(state.discardPile).rank = "8"
   /\ Len(state.aiHand) > 0)
  => /\ state.currentSuit \in SuitSet
     /\ \A s \in SuitSet :
          \/ suitCount(state.aiHand, s) < suitCount(state.aiHand, state.currentSuit)
          \/ /\ suitCount(state.aiHand, s) = suitCount(state.aiHand, state.currentSuit)
             /\ SuitIndex(s) <= SuitIndex(state.currentSuit)
     /\ state.status = "playing"
     /\ state.currentTurn = "player"

\* The computer's eight met a tie between two suits of its remaining cards.
C9_Witness ==
  /\ PlayedBy("ai")
  /\ Last(state.discardPile).rank = "8"
  /\ Len(state.aiHand) > 0
  /\ \E s \in SuitSet \ {state.currentSuit} :
       suitCount(state.aiHand, s) = suitCount(state.aiHand, state.currentSuit)

\* C10: a draw from an empty draw pile with more than one card on the
\* discard pile keeps the top card, as the only card of the discard pile,
\* makes the new draw pile of the other discard cards, one of which goes to
\* the drawing side's hand, and keeps the total number of cards.
C10_Reshuffle ==
  [][(/\ lastOp'.name = "drawCard"
      /\ Len(state.deck) = 0
      /\ Len(state.discardPile) > 1)
     => LET turn == lastOp'.turn
            hand == state[HandField(turn)]
            hand2 == state'[HandField(turn)]
            others == CardIds(Front(state.discardPile))
        IN /\ state'.discardPile = <<Last(state.discardPile)>>
           /\ Len(hand2) = Len(hand) + 1
           /\ Front(hand2) = hand
           /\ Last(hand2).id \in others
           /\ CardIds(state'.deck) = others \ {Last(hand2).id}
           /\ Len(state'.deck) = Len(state.discardPile) - 2
           /\ state'[HandField(Other(turn))] = state[HandField(Other(turn))]
           /\ CardCount(state') = CardCount(state)]_vars

\* A reshuffling draw has just been made.
C10_Witness ==
  /\ lastOp.name = "drawCard"
  /\ lastOp.branch = "reshuffle"
  /\ Len(state.discardPile) = 1
  /\ Len(state.deck) > 1

\* ------------------------------------------------------------- drawCard on exhausted piles

\* array rotated left by r places
Rotate(array, r) == [i \in 1..Len(array) |-> array[((i - 1 + r) % Len(array)) + 1]]

\* A game state with an empty draw pile and the top card alone on the discard
\* pile: the other 51 of the cards are split between the hands.
exhaustedState(cards, n, turn, currentSuit) ==
  [deck |-> <<>>, discardPile |-> <<Last(cards)>>,
   playerHand |-> SubSeq(cards, 1, n), aiHand |-> SubSeq(cards, n + 1, Len(cards) - 1),
   currentSuit |-> currentSuit, currentTurn |-> turn, status |-> "playing",
   winner |-> Null, lastAction |-> <<"draw", Other(turn)>>]

\* The timer the AI effect has set in a state s
timerOf(s) ==
  IF aiEffectCondition(s)
  THEN [pending |-> TRUE, aiHand |-> s.aiHand,
        discardPile |-> s.discardPile, currentSuit |-> s.currentSuit]
  ELSE NoTimer

\* The side holding the turn in s can only draw: the draw pile button is
\* enabled for the player, the computer's timer callback finds no playable card.
mustDraw(s) ==
  IF s.currentTurn = "player" THEN drawButtonEnabled(s)
  ELSE Len(aiPlayableCards(timerOf(s))) = 0

\* drawCard applied to states with exhausted piles in which the side to move
\* has no legal card. (The handlers of a running game never produce such a
\* state: see C11.)
InitDraw ==
  /\ \E seed \in 1..NSeeds, r \in 0..(Len(OrderedDeck) - 1) :
       \E cards \in {Rotate(createDeck(seed), r)} :
         \E n \in 1..(Len(cards) - 2), turn \in {"player", "ai"},
            currentSuit \in SuitSet \cup {Null} :
           /\ currentSuit # Null => Last(cards).rank = EIGHT
           /\ state = exhaustedState(cards, n, turn, currentSuit)
  /\ mustDraw(state)
  /\ isAiThinking = aiEffectCondition(state)
  /\ timer = timerOf(state)
  /\ deviations = 0
  /\ lastOp = [name |-> "init", turn |-> Null, branch |-> Null]
  /\ probe = NoProbe

\* The player's draw from the exhausted piles
PlayerDrawExhausted == lastOp.name = "init" /\ PlayerDraw

\* The computer's draw from the exhausted piles
AiDrawExhausted == lastOp.name = "init" /\ AiTimerFires

\* The player's click on the turn that follows a forfeited draw: on the draw
\* pile or on a card of the hand
PlayerFollows ==
  /\ lastOp.branch = "exhausted"
  /\ \E click \in {"pile", "card"} : IF click = "pile" THEN PlayerDraw ELSE PlayerPlay

\* The computer's move on the turn that follows a forfeited draw
AiFollows == lastOp.branch = "exhausted" /\ AiTimerFires

NextDraw == PlayerDrawExhausted \/ AiDrawExhausted \/ PlayerFollows \/ AiFollows

SpecDraw == InitDraw /\ [][NextDraw]_vars

\* C11: a draw from an empty draw pile with at most one card on the discard
\* pile moves no card (piles and hands stay as they are, and so do the
\* status, the declared suit and the winner) and passes the turn to the
\* other side.
C11_ExhaustedDraw ==
  [][(/\ lastOp'.name = "drawCard"
      /\ Len(state.deck) = 0
      /\ Len(state.discardPile) <= 1)
     => /\ state'.deck = state.deck
        /\ state'.discardPile = state.discardPile
        /\ state'.playerHand = state.playerHand
        /\ state'.aiHand = state.aiHand
        /\ state'.status = state.status
        /\ state'.currentSuit = state.currentSuit
        /\ state'.winner = state.winner
        /\ state.currentTurn = lastOp'.turn
        /\ state'.currentTurn = Other(lastOp'.turn)]_vars

\* The computer has forfeited a draw under a declared suit.
C11_Witness ==
  /\ lastOp.name = "drawCard"
  /\ lastOp.turn = "ai"
  /\ lastOp.branch = "exhausted"
  /\ state.currentSuit # Null
  /\ state.currentTurn = "player"
  /\ Len(state.deck) = 0
  /\ Len(state.discardPile) = 1

\* In a running game the branch of exhausted piles is never taken: with the
\* draw pile empty and one card on the discard pile the hands hold at least
\* three eights, and the side that drew last held two of them or the side
\* to move holds one, so one of the two draws was not on offer.
ExhaustedNeverDrawn == lastOp.branch # "exhausted"

\* C12: a draw from a non-empty draw pile moves exactly the last card of
\* that pile to the end of the drawing side's hand and passes the turn; the
\* discard pile, the other hand, the declared suit, the status and the
\* winner stay as they are, also when the pile held a single card.
C12_NormalDraw ==
  [][(lastOp'.name = "drawCard" /\ Len(state.deck) > 0)
     => LET turn == lastOp'.turn
        IN /\ state'.deck = Front(state.deck)
           /\ state'[HandField(turn)] = Append(state[HandField(turn)], Last(state.deck))
           /\ state'[HandField(Other(turn))] = state[HandField(Other(turn))]
           /\ state'.discardPile = state.discardPile
           /\ state'.currentSuit = state.currentSuit
           /\ state'.status = state.status
           /\ state'.winner = state.winner
           /\ state.currentTurn = turn
           /\ state'.currentTurn = Other(turn)]_vars

\* A draw has taken the only card of the draw pile and shuffled nothing.
C12_Witness ==
  /\ lastOp.name = "drawCard"
  /\ lastOp.branch = "normal"
  /\ Len(state.deck) = 0
  /\ Len(state.discardPile) > 1

\* A step in which a side draws or plays a card
IsMove(op) == op.name \in {"drawCard", "playCard"}

\* C13: the turn alternates strictly. Every draw and every play is made by
\* the side holding the turn and hands the turn to the other side, except
\* that an eight played by the player leaves the turn with the player, who
\* can then only declare a suit, which hands the turn to the computer; no
\* side makes two draw or play moves in a row.
C13_TurnAlternates ==
  [][IsMove(lastOp')
     => LET turn == lastOp'.turn
            playerEight == /\ lastOp'.name = "playCard"
                           /\ turn = "player"
                           /\ Last(state'.discardPile).rank = EIGHT
        IN /\ state.currentTurn = turn
           /\ IF playerEight
              THEN /\ state'.currentTurn = "player"
                   /\ state'.status \in {"choosing_suit", "game_over"}
              ELSE state'.currentTurn = Other(turn)
           /\ IsMove(lastOp) => lastOp.turn # turn
           /\ lastOp.name = "selectSuit" => turn = "ai"]_vars

\* While a suit is awaited or the game is over no draw or play is on offer.
C13_NoMoveOffered ==
  state.status \in {"choosing_suit", "game_over"}
    => /\ ~drawButtonEnabled(state)
       /\ \A i \in 1..Len(state.playerHand) : ~playable(state, i)
       /\ ~timer.pending

\* The computer has moved right after the player declared a suit, and the
\* player moves next.
C13_Witness ==
  /\ IsMove(lastOp)
  /\ lastOp.turn = "ai"
  /\ state.currentTurn = "player"
  /\ state.status = "playing"
  /\ Len(state.discardPile) >= 2
  /\ state.discardPile[Len(state.discardPile) - 1].rank = EIGHT
  /\ state.lastAction[1] \in {"play", "draw"}

\* C14: a play that empties the playing side's hand skips the updates of the
\* turn and of the declared suit: afterwards the turn still belongs to the
\* side that played and no suit is declared, also when the computer's last
\* card is an eight.
C14_ConcludingPlay ==
  \A turn \in {"player", "ai"} :
    (PlayedBy(turn) /\ Len(state[HandField(turn)]) = 0)
      => (state.currentTurn = turn /\ state.currentSuit = Null)

\* The computer's last card was an eight and a suit is declared after it.
C14_ComputerEightDeclares ==
  /\ PlayedBy("ai")
  /\ Len(state.aiHand) = 0
  /\ Last(state.discardPile).rank = EIGHT
  /\ state.currentSuit # Null

\* The side to move and the status allow a move of turn
MayMove(s, turn) == s.currentTurn = turn /\ s.status = "playing"

\* C15: a draw or a play attempted by the side that does not hold the turn,
\* or while the status is not in-progress, fails and leaves the whole state
\* unchanged: a click of the player on the draw pile or on a card returns
\* the state as it is, and no timer callback of the computer is pending.
C15_OutOfTurnRejected ==
  /\ ~MayMove(state, "player")
       => /\ \A seed \in 1..NSeeds : drawPileClick(state, seed) = state
          /\ \A i \in 1..Len(state.playerHand) : cardClick(state, i) = state
  /\ ~MayMove(state, "ai") => ~timer.pending

\* The player holds the turn while a suit is awaited: only the disabled
\* attribute keeps a click on the draw pile from drawing.
C15_Witness ==
  /\ state.status = "choosing_suit"
  /\ state.currentTurn = "player"
  /\ Len(state.deck) > 0
  /\ Len(state.playerHand) > 0
  /\ ~canPlayerMove(state)
  /\ drawPileClick(state, 1) = state
  /\ cardClick(state, 1) = state

\* The i-th card of the player's hand is not legal in s
IllegalInHand(s, i) ==
  ~(Len(s.discardPile) > 0 /\ isValidMove(s.playerHand[i], topCardOf(s), s.currentSuit))

\* C16: a play of a card that is not legal against the top card and the
\* declared suit fails and leaves the whole state unchanged, and only cards
\* of a side's own hand are on offer to it; so every card a play appends to
\* the discard pile was in the playing side's hand and legal at that moment.
C16_OnlyLegalOwnCards ==
  [][/\ \A i \in 1..Len(state.playerHand) :
          IllegalInHand(state, i) => cardClick(state, i) = state
     /\ lastOp'.name = "playCard"
          => LET card == Last(state'.discardPile)
                 hand == state[HandField(lastOp'.turn)]
             IN /\ state'.discardPile = Append(state.discardPile, card)
                /\ \E i \in 1..Len(hand) : hand[i] = card
                /\ isValidMove(card, topCardOf(state), state.currentSuit)]_vars

\* The player has played a card of the suit in force on top of an eight
\* while holding a card that was not legal then.
C16_Witness ==
  /\ PlayedBy("player")
  /\ Len(state.discardPile) >= 2
  /\ state.discardPile[Len(state.discardPile) - 1].rank = EIGHT
  /\ Last(state.discardPile).rank # EIGHT
  /\ \E i \in 1..Len(state.playerHand) :
       /\ state.playerHand[i].suit # Last(state.discardPile).suit
       /\ state.playerHand[i].rank # EIGHT

\* The state the pending callback closed over is the state s
FreshClosure(s, t) ==
  /\ MayMove(s, "ai")
  /\ t.aiHand = s.aiHand
  /\ Last(t.discardPile) = topCardOf(s)
  /\ t.currentSuit = s.currentSuit

\* C17: a computer decision scheduled before a reset or a new start is never
\* applied afterwards: the reset, the return to the menu and the start leave
\* no callback pending, and every draw or play of the computer acts on a
\* state with status in-progress and the computer to move, deciding from the
\* hand, the top card and the declared suit of that state.
C17_NoStaleDecision ==
  [][/\ lastOp'.name \in {"reset", "returnToMenu", "initGame"} => ~timer'.pending
     /\ timer'.pending => FreshClosure(state', timer')
     /\ (IsMove(lastOp') /\ lastOp'.turn = "ai") => FreshClosure(state, timer)]_vars

\* The game was reset while the computer was thinking: the flag the effect
\* raised is still up and the callback it scheduled is gone.
C17_Witness ==
  /\ lastOp.name = "reset"
  /\ isAiThinking
  /\ state.currentTurn = "ai"
  /\ state.status = "waiting"
  /\ state.winner = Null
  /\ ~timer.pending

\* s is a game as initGame deals it
FreshGame(s) == \E seed \in 1..NSeeds : s = initGameState(seed)

\* C18: once the game is concluded no draw, play or declaration of a suit
\* changes the state; the state changes again only through a full reset or
\* start that deals a fresh game.
C18_ConcludedFrozen ==
  [][state.status = "game_over" => (lastOp'.name = "initGame" /\ FreshGame(state'))]_vars

\* Once the game is concluded no draw, play or declaration of a suit is
\* made, by the player or by the computer's callback.
C18_NoMoveAfterConclusion ==
  [][state.status = "game_over" => lastOp'.name \in {"initGame", "reset", "returnToMenu"}]_vars

\* The return to the menu has changed a concluded game without dealing.
C18_MenuKeepsOldGame ==
  /\ lastOp.name = "returnToMenu"
  /\ state.status = "waiting"
  /\ state.winner # Null
  /\ ~FreshGame(state)

\* The cards of the computer's hand that are legal in s
LegalAiCards(s) ==
  {s.aiHand[i] : i \in {k \in 1..Len(s.aiHand) :
                          isValidMove(s.aiHand[k], topCardOf(s), s.currentSuit)}}

\* C19: on its turn the computer draws if and only if no card of its hand is
\* legal against the top card and the declared suit; holding a legal card
\* that is not an eight it plays such a card; it plays an eight only when
\* every legal card of its hand is an eight.
C19_ComputerDecision ==
  [][(IsMove(lastOp') /\ lastOp'.turn = "ai")
     => LET legal == LegalAiCards(state)
            nonEights == {c \in legal : c.rank # EIGHT}
            card == Last(state'.discardPile)
        IN /\ (lastOp'.name = "drawCard") <=> (legal = {})
           /\ lastOp'.name = "playCard" => card \in legal
           /\ nonEights # {} => (lastOp'.name = "playCard" /\ card \in nonEights)
           /\ (lastOp'.name = "playCard" /\ card.rank = EIGHT)
                => \A c \in legal : c.rank = EIGHT]_vars

\* The computer has played an eight on a card that is no eight, keeping
\* cards none of which matched that card's suit or rank.
C19_Witness ==
  /\ PlayedBy("ai")
  /\ Last(state.discardPile).rank = EIGHT
  /\ Len(state.aiHand) >= 2
  /\ LET below == state.discardPile[Len(state.discardPile) - 1]
     IN /\ below.rank # EIGHT
        /\ \A i \in 1..Len(state.aiHand) :
             \/ state.aiHand[i].rank = EIGHT
             \/ (state.aiHand[i].suit # below.suit /\ state.aiHand[i].rank # below.rank)

\* The computer has just made its move and the turn has left it
AiMoved(s, op) ==
  /\ IsMove(op)
  /\ op.turn = "ai"
  /\ (s.currentTurn = "player" \/ s.status = "game_over")

\* C20: whenever the turn is the computer's while the game is in progress,
\* the computer eventually makes a move, a play or a draw, unless a reset
\* intervenes, and after the move the turn is the player's or the game is
\* concluded; having moved it has no further move pending, so it never
\* moves twice for one turn.
C20_ComputerMovesOnce ==
  /\ MayMove(state, "ai") ~> (AiMoved(state, lastOp) \/ lastOp.name = "reset")
  /\ [][(IsMove(lastOp') /\ lastOp'.turn = "ai")
        => /\ AiMoved(state', lastOp')
           /\ ~MayMove(state', "ai")
           /\ ~timer'.pending]_vars

\* The computer has drawn a card for its turn and waits for the player.
C20_Witness ==
  /\ lastOp.name = "drawCard"
  /\ lastOp.turn = "ai"
  /\ state.status = "playing"
  /\ state.currentTurn = "player"
  /\ ~timer.pending
  /\ ~isAiThinking

\* A declared suit lies on an eight
DeclaredOnEight(s) ==
  s.currentSuit # Null => (Len(s.discardPile) > 0 /\ topCardOf(s).rank = EIGHT)

\* C21: in every reachable state a declared suit implies that the top card
\* of the discard pile is an eight: every play of a card that is no eight
\* clears the declared suit, and a draw, the reshuffling one included,
\* changes neither the declared suit nor the top card.
C21_DeclaredSuitOnEight ==
  /\ []DeclaredOnEight(state)
  /\ [][/\ (lastOp'.name = "playCard" /\ topCardOf(state').rank # EIGHT)
             => state'.currentSuit = Null
        /\ lastOp'.name = "drawCard"
             => /\ state'.currentSuit = state.currentSuit
                /\ topCardOf(state') = topCardOf(state)]_vars

\* A side has drawn under a declared suit, which is still in force.
C21_Witness ==
  /\ lastOp.name = "drawCard"
  /\ lastOp.branch = "normal"
  /\ state.currentSuit # Null
  /\ topCardOf(state).rank = EIGHT

\* A card that is no eight has been played on a declared suit.
C21_SuitCleared ==
  /\ lastOp.name = "playCard"
  /\ Len(state.discardPile) >= 2
  /\ state.discardPile[Len(state.discardPile) - 1].rank = EIGHT
  /\ topCardOf(state).rank # EIGHT
  /\ state.currentSuit = Null

\* The side holding the turn in s holds a card that is legal in s
HoldsLegalCard(s) ==
  \E i \in 1..Len(s[HandField(s.currentTurn)]) :
    isValidMove(s[HandField(s.currentTurn)][i], topCardOf(s), s.currentSuit)

\* C22: two forfeited draws never occur in succession. After a draw that
\* was forfeited because the draw pile is empty and the discard pile holds
\* only its top card, the other side holds a legal card on its turn, a draw
\* is not on offer to it, and the step that follows is a play.
C22_NoTwoForfeits ==
  /\ [](lastOp.branch = "exhausted"
          => /\ MayMove(state, Other(lastOp.turn))
             /\ HoldsLegalCard(state)
             /\ ~mustDraw(state))
  /\ [][lastOp.branch = "exhausted"
          => (lastOp'.name = "playCard" /\ lastOp'.turn = Other(lastOp.turn))]_vars

\* A side has played a card on the turn that followed the other side's
\* forfeited draw.
C22_Witness ==
  /\ lastOp.name = "playCard"
  /\ Len(state.deck) = 0
  /\ Len(state.discardPile) = 2
  /\ Len(state.playerHand) + Len(state.aiHand) = 50
  /\ state.winner = Null

====
